---- MODULE Spec2Model ----
(***************************************************************************)
(* Session consistency between the durable user store (MongoDB collection  *)
(* 'Consumers') and the session cache (Redis) of the climate backend.      *)
(* Every request handler is split at its awaits on the store or the cache: *)
(* one action per awaited call together with the synchronous code that     *)
(* follows it up to the next await or the response.                        *)
(***************************************************************************)
EXTENDS Integers, Sequences, FiniteSets, TLC

VARIABLES users, cache, now, reqs, ready, conn

vars == <<users, cache, now, reqs, ready, conn>>

(* ------------------------------ bounds --------------------------------- *)
MaxUsers == 2
MaxReqs == 2
TTLSteps == 2
MaxTimers == 2

Reqs == 1..MaxReqs

(* ------------------------- program constants --------------------------- *)
EX == 60 * 60 * 24 * 90

Quantum == EX \div TTLSteps

\* reconnectStrategy gives up when retries > 10
MaxRetries == 10

(* ------------------------------ inputs --------------------------------- *)
Names == {"ann"}
Phones == {"111", "222"}
Passwords == {"pw1", "pw2"}
RegPasswords == {"pw1"}
RegPhones == {"111"}
Emails == {"A@x.com", "a@x.com"}
Missing == ""

\* the inputs of the two-account runs
AcctEmails == {"a@x.com", "b@x.com"}
AcctPasswords == {"pw1", "password2"}
NewPasswords == {"pw2", "password2"}
Userids == {"uuid-1", "uuid-2", Missing}

(* --------------------------- JS value helpers -------------------------- *)
Undefined == "undefined"
Null == "null"
False == "false"
NoKey == <<>>

toLowerCase(e) == IF e = "A@x.com" THEN "a@x.com" ELSE e

\* String.prototype.length on the passwords used
length(s) == IF s = "password2" THEN 9 ELSE 3

\* x || d on the values a record can hold in these fields
OrDefault(x, d) == IF x \in {Undefined, Null, False, Missing} THEN d ELSE x

\* crypto.randomUUID(): the n-th document gets an identifier of its own
randomUUID(n) == <<"uuid-1", "uuid-2", "uuid-3", "uuid-4">>[n]

\* bcrypt.hash / bcrypt.compare as a one-way verifier
bcryptHash(pw) == <<"bcrypt", pw>>
bcryptCompare(pw, hashed) == hashed = bcryptHash(pw)

\* Date.prototype.toJSON
toISOString(d) == <<"iso", d>>

Fields == <<"name", "email", "phone", "userid", "createdAt",
            "resetTokenUsed", "resetTokenTime">>

\* the userPayload object literal built from a user document
Payload(user) ==
  [name |-> user.name, email |-> user.email, phone |-> user.phone,
   userid |-> user.userid, createdAt |-> user.createdAt,
   resetTokenUsed |-> OrDefault(user.resetTokenUsed, False),
   resetTokenTime |-> OrDefault(user.resetTokenTime, Null)]

\* JSON.stringify of a payload: key/value pairs in insertion order, keys
\* whose value is undefined omitted, the Date written as its ISO string
JSONstringify(p) ==
  LET keep(i) == IF Fields[i] = "createdAt" THEN TRUE
                 ELSE p[Fields[i]] # Undefined
      val(i) == IF Fields[i] = "createdAt" THEN toISOString(p.createdAt)
                ELSE p[Fields[i]]
      F[i \in 0..Len(Fields)] ==
        IF i = 0 THEN <<>>
        ELSE IF keep(i) THEN Append(F[i - 1], <<Fields[i], val(i)>>)
             ELSE F[i - 1]
  IN F[Len(Fields)]

\* JSON.parse of such a text: an object whose absent keys read as undefined
JSONparse(s) ==
  [f \in {Fields[i] : i \in 1..Len(Fields)} |->
     IF \E i \in 1..Len(s) : s[i][1] = f
     THEN s[CHOOSE i \in 1..Len(s) : s[i][1] = f][2]
     ELSE Undefined]

\* crypto.createHash('sha256').update(text).digest('hex'), collision free
sha256(text) == <<"sha256", text>>

BogusToken == sha256(<<>>)

(* ------------------------------ the store ------------------------------ *)
\* first document of the collection matching a filter, 0 when none
FirstBySessionKey(us, k) ==
  IF \E i \in 1..Len(us) : us[i].sessionKey = k
  THEN CHOOSE i \in 1..Len(us) :
         /\ us[i].sessionKey = k
         /\ \A j \in 1..(i - 1) : us[j].sessionKey # k
  ELSE 0

FirstByEmail(us, e) ==
  IF \E i \in 1..Len(us) : us[i].email = e
  THEN CHOOSE i \in 1..Len(us) :
         /\ us[i].email = e
         /\ \A j \in 1..(i - 1) : us[j].email # e
  ELSE 0

FirstByUserid(us, id) ==
  IF \E i \in 1..Len(us) : us[i].userid = id
  THEN CHOOSE i \in 1..Len(us) :
         /\ us[i].userid = id
         /\ \A j \in 1..(i - 1) : us[j].userid # id
  ELSE 0

\* variant: the pointer is left in place
UnsetSessionKey_Keep(us, k) == us

\* updateOne({ sessionKey }, { $unset: { sessionKey: "" } })
UnsetSessionKey(us, k) ==
  LET i == FirstBySessionKey(us, k)
  IN IF i = 0 THEN us ELSE [us EXCEPT ![i].sessionKey = NoKey]

\* updateOne({ email }, { $set: { sessionKey } })
SetSessionKey(us, e, k) ==
  LET i == FirstByEmail(us, e)
  IN IF i = 0 THEN us ELSE [us EXCEPT ![i].sessionKey = k]

\* variant: the filter is dropped and every document is written
SetProfile_Many(us, k, name, phone) ==
  [j \in 1..Len(us) |-> [us[j] EXCEPT !.name = name, !.phone = phone]]

\* updateOne({ sessionKey }, { $set: { name, phone } })
SetProfile(us, k, name, phone) ==
  LET i == FirstBySessionKey(us, k)
  IN IF i = 0 THEN us ELSE [us EXCEPT ![i].name = name, ![i].phone = phone]

\* variant: a password change also drops the session pointer
SetPassword_Revoke(us, id, hashed, t) ==
  LET i == FirstByUserid(us, id)
  IN IF i = 0 THEN us
     ELSE [us EXCEPT ![i].password = hashed, ![i].passwordChangedAt = <<t>>,
                     ![i].sessionKey = NoKey]

\* updateOne({ userid }, { $set: { password, passwordChangedAt } })
SetPassword(us, id, hashed, t) ==
  LET i == FirstByUserid(us, id)
  IN IF i = 0 THEN us
     ELSE [us EXCEPT ![i].password = hashed, ![i].passwordChangedAt = <<t>>]

\* the unique index { email: 1 } rejects an exact duplicate (error 11000)
DuplicateKey(us, e) == \E i \in 1..Len(us) : us[i].email = e

(* ------------------------------ the cache ------------------------------ *)
\* redisClient.get: the stored text in a one-element tuple, <<>> for null
CacheGet(c, k) == IF k \in DOMAIN c THEN <<c[k].val>> ELSE <<>>

\* redisClient.set(k, text, { EX })
CacheSet(c, k, text, t) ==
  [x \in DOMAIN c \cup {k} |->
     IF x = k THEN [val |-> text, exp |-> t + EX] ELSE c[x]]

\* redisClient.del(k)
CacheDel(c, k) == [x \in DOMAIN c \ {k} |-> c[x]]

\* keys whose expiry has passed are gone
Expire(c, t) == [x \in {k \in DOMAIN c : c[k].exp > t} |-> c[x]]

(* --------------------------- the cache client -------------------------- *)
\* the module state of redisClient.js and of the client it creates:
\* isConnecting, isConnected (the two flags), isOpen (redisClient.isOpen),
\* sock (what the client's socket is doing), retries (the count handed to
\* reconnectStrategy), pending (connectRedis calls waiting in
\* await redisClient.connect()), timers (setTimeout(connectRedis, 5000)
\* not yet fired), delay (the last reconnect delay), exited (process.exit)
Connected ==
  [isConnecting |-> FALSE, isConnected |-> TRUE, isOpen |-> TRUE,
   sock |-> "ready", retries |-> 0, pending |-> 0, timers |-> 0,
   delay |-> 0, exited |-> FALSE]

\* the state right after the module is loaded: connectRedis() has run up to
\* its await and the first connection attempt is under way
Loaded ==
  [isConnecting |-> TRUE, isConnected |-> FALSE, isOpen |-> TRUE,
   sock |-> "connecting", retries |-> 0, pending |-> 1, timers |-> 0,
   delay |-> 0, exited |-> FALSE]

Min(a, b) == IF a < b THEN a ELSE b

\* socket.reconnectStrategy: <<>> for false, else the delay in a tuple
reconnectStrategy(retries) ==
  IF retries > MaxRetries THEN <<>>
  ELSE <<Min(retries * 1000, 5000)>>

\* variant: the flags are not consulted
connectRedis_NoGuard(c) ==
  IF ~c.isOpen
  THEN [c EXCEPT !.isConnecting = TRUE, !.isOpen = TRUE,
                 !.sock = "connecting", !.retries = 0,
                 !.pending = @ + 1]
  ELSE [c EXCEPT !.isConnecting = FALSE]

\* connectRedis() up to its await; when the client is open already the
\* try block does nothing and finally resets isConnecting
connectRedis(c) ==
  IF c.isConnecting \/ c.isConnected THEN c
  ELSE IF ~c.isOpen
  THEN [c EXCEPT !.isConnecting = TRUE, !.isOpen = TRUE,
                 !.sock = "connecting", !.retries = 0,
                 !.pending = @ + 1]
  ELSE [c EXCEPT !.isConnecting = FALSE]

\* connectRedis() after redisClient.connect() resolved
connectResolved(c) ==
  IF c.pending = 0 THEN c
  ELSE [c EXCEPT !.isConnected = TRUE, !.isConnecting = FALSE,
                 !.pending = @ - 1]

\* connectRedis() after redisClient.connect() rejected: catch and finally
connectRejected(c) ==
  IF c.pending = 0 THEN c
  ELSE [c EXCEPT !.timers = @ + 1, !.isConnecting = FALSE,
                 !.pending = @ - 1]

\* redisClient.on('ready')
onReady(c) == [c EXCEPT !.isConnected = TRUE]

\* redisClient.on('error'); listed: err.code is one of ECONNREFUSED,
\* ENOTFOUND, ETIMEDOUT
onError(c, listed) ==
  [c EXCEPT !.isConnected = FALSE,
            !.timers = IF listed /\ ~c.isConnecting THEN @ + 1 ELSE @]

\* redisClient.on('end')
onEnd(c) ==
  [c EXCEPT !.isConnected = FALSE,
            !.timers = IF ~c.isConnecting THEN @ + 1 ELSE @]

(* ----------------------------- requests -------------------------------- *)
NoResp == [status |-> 0, error |-> "", log |-> "", sessionKey |-> NoKey,
           user |-> <<>>]

Idle == [pc |-> "idle", op |-> "none", email |-> "", name |-> "",
         phone |-> "", sessionKey |-> NoKey, user |-> <<>>, cached |-> <<>>,
         payload |-> <<>>, pre |-> "", userid |-> "", password |-> "",
         resp |-> NoResp]

Free(r) == reqs[r].pc \in {"idle", "done"}

\* a new request takes the first slot that has no handler running
Slot(r) == Free(r) /\ \A q \in 1..(r - 1) : ~Free(q)

\* a response is on view in the state its step leads to, and gone after
Fresh == [q \in Reqs |-> IF reqs[q].pc = "done" THEN Idle ELSE reqs[q]]

\* the response sent for a request; the handler's locals die with it
Respond(op, key, status, error, log, body, token) ==
  [Idle EXCEPT !.pc = "done", !.op = op, !.sessionKey = key,
               !.resp = [status |-> status, error |-> error, log |-> log,
                         sessionKey |-> token, user |-> body]]

\* tokens a client can present: those the store or the cache still hold,
\* and one that was never issued
Tokens ==
  (DOMAIN cache \cup {users[i].sessionKey : i \in 1..Len(users)}
     \cup {BogusToken}) \ {NoKey}

Init ==
  /\ users = <<>>
  /\ cache = <<>>
  /\ now = 0
  /\ reqs = [r \in Reqs |-> Idle]
  /\ ready = TRUE
  /\ conn = Connected

(* --------------------------- POST /register ---------------------------- *)
Register(r, name, email, phone, password) ==
  /\ Free(r)
  /\ UNCHANGED <<conn, cache, now, ready>>
  /\ IF Missing \in {name, email, phone, password}
     THEN /\ reqs' = [Fresh EXCEPT ![r] = Respond("register", NoKey, 400,
                         "All fields are required.", "", <<>>, NoKey)]
          /\ UNCHANGED users
     ELSE IF DuplicateKey(users, toLowerCase(email))
     THEN /\ reqs' = [Fresh EXCEPT ![r] = Respond("register", NoKey, 409,
                         "Email already registered.", "", <<>>, NoKey)]
          /\ UNCHANGED users
     ELSE /\ Len(users) < MaxUsers
          /\ users' = Append(users,
               [userid |-> randomUUID(Len(users) + 1), name |-> name,
                email |-> toLowerCase(email), phone |-> phone,
                password |-> bcryptHash(password),
                resetTokenUsed |-> False, resetTokenTime |-> Null,
                createdAt |-> now, sessionKey |-> NoKey,
                passwordChangedAt |-> <<>>])
          /\ reqs' = [Fresh EXCEPT ![r] = Respond("register", NoKey, 201,
                         "", "", <<>>, NoKey)]

\* POST /register of the earlier server file: the email is stored as given
\* and the document has no userid and no reset bookkeeping
RegisterLegacy(r, name, email, phone, password) ==
  /\ Free(r)
  /\ UNCHANGED <<conn, cache, now, ready>>
  /\ IF Missing \in {name, email, phone, password}
     THEN /\ reqs' = [Fresh EXCEPT ![r] = Respond("registerLegacy", NoKey,
                         400, "All fields are required.", "", <<>>, NoKey)]
          /\ UNCHANGED users
     ELSE IF DuplicateKey(users, email)
     THEN /\ reqs' = [Fresh EXCEPT ![r] = Respond("registerLegacy", NoKey,
                         409, "Email already registered.", "", <<>>, NoKey)]
          /\ UNCHANGED users
     ELSE /\ Len(users) < MaxUsers
          /\ users' = Append(users,
               [userid |-> Undefined, name |-> name, email |-> email,
                phone |-> phone, password |-> bcryptHash(password),
                resetTokenUsed |-> Undefined, resetTokenTime |-> Undefined,
                createdAt |-> now, sessionKey |-> NoKey,
                passwordChangedAt |-> <<>>])
          /\ reqs' = [Fresh EXCEPT ![r] = Respond("registerLegacy", NoKey,
                         201, "", "", <<>>, NoKey)]

(* ----------------------------- POST /login ----------------------------- *)
\* variant: the stored verifier travels with the body
LoginOk_Leak(user, key) ==
  Respond("login", key, 200, "", "",
          <<user.userid, user.name, user.password>>, key)

\* the body of a successful login: sessionKey, userid and name
LoginOk(user, key) ==
  Respond("login", key, 200, "", "", <<user.userid, user.name>>, key)

\* variant: the password is not compared
LoginFind_NoVerify(r, email, password) ==
  /\ Free(r)
  /\ UNCHANGED <<conn, users, cache, now, ready>>
  /\ LET i == FirstByEmail(users, toLowerCase(email))
     IN IF i = 0
        THEN reqs' = [Fresh EXCEPT ![r] = Respond("login", NoKey, 400,
                        "User Doesn't Exist", "", <<>>, NoKey)]
        ELSE reqs' = [Fresh EXCEPT ![r] =
               [Idle EXCEPT !.op = "login", !.email = email,
                            !.user = <<users[i]>>,
                            !.sessionKey = users[i].sessionKey,
                            !.pc = IF users[i].sessionKey # NoKey
                                   THEN "login_get" ELSE "login_update"]]

\* findOne({ email }) and bcrypt.compare
LoginFind(r, email, password) ==
  /\ Free(r)
  /\ UNCHANGED <<conn, users, cache, now, ready>>
  /\ LET i == FirstByEmail(users, toLowerCase(email))
     IN IF i = 0
        THEN reqs' = [Fresh EXCEPT ![r] = Respond("login", NoKey, 400,
                        "User Doesn't Exist", "", <<>>, NoKey)]
        ELSE IF ~bcryptCompare(password, users[i].password)
        THEN reqs' = [Fresh EXCEPT ![r] = Respond("login", NoKey, 400,
                        "Invalid credentials", "", <<>>, NoKey)]
        ELSE reqs' = [Fresh EXCEPT ![r] =
               [Idle EXCEPT !.op = "login", !.email = email,
                            !.user = <<users[i]>>,
                            !.sessionKey = users[i].sessionKey,
                            !.pc = IF users[i].sessionKey # NoKey
                                   THEN "login_get" ELSE "login_update"]]

\* variant: a hit writes the entry back with a new expiry
LoginCacheGet_Refresh(r) ==
  /\ reqs[r].pc = "login_get"
  /\ UNCHANGED <<conn, users, now, ready>>
  /\ IF CacheGet(cache, reqs[r].sessionKey) # <<>>
     THEN /\ cache' = CacheSet(cache, reqs[r].sessionKey,
                               cache[reqs[r].sessionKey].val, now)
          /\ reqs' = [Fresh EXCEPT ![r] =
                        LoginOk(reqs[r].user[1], reqs[r].sessionKey)]
     ELSE /\ reqs' = [Fresh EXCEPT ![r].pc = "login_update"]
          /\ UNCHANGED cache

\* redisClient.get(sessionKey) for a record that has a sessionKey
LoginCacheGet(r) ==
  /\ reqs[r].pc = "login_get"
  /\ UNCHANGED <<conn, users, cache, now, ready>>
  /\ \/ /\ ~ready
        /\ reqs' = [Fresh EXCEPT ![r] = Respond("login", NoKey, 500,
                       "Server error", "", <<>>, NoKey)]
     \/ /\ ready
        /\ IF CacheGet(cache, reqs[r].sessionKey) # <<>>
           THEN reqs' = [Fresh EXCEPT ![r] =
                           LoginOk(reqs[r].user[1], reqs[r].sessionKey)]
           ELSE reqs' = [Fresh EXCEPT ![r].pc = "login_update"]

\* variant: the time of the login is hashed along with the payload
LoginUpdate_Salted(r) ==
  /\ reqs[r].pc = "login_update"
  /\ UNCHANGED <<conn, cache, now, ready>>
  /\ LET text == JSONstringify(Payload(reqs[r].user[1]))
         key == sha256(Append(text, <<"iat", toISOString(now)>>))
     IN /\ users' = SetSessionKey(users, toLowerCase(reqs[r].email), key)
        /\ reqs' = [Fresh EXCEPT ![r].pc = "login_set",
                                 ![r].sessionKey = key,
                                 ![r].payload = <<text>>]

\* variant: the token is derived from the name alone
LoginUpdate_NameOnly(r) ==
  /\ reqs[r].pc = "login_update"
  /\ UNCHANGED <<conn, cache, now, ready>>
  /\ LET text == JSONstringify(Payload(reqs[r].user[1]))
         key == sha256(<<<<"name", reqs[r].user[1].name>>>>)
     IN /\ users' = SetSessionKey(users, toLowerCase(reqs[r].email), key)
        /\ reqs' = [Fresh EXCEPT ![r].pc = "login_set",
                                 ![r].sessionKey = key,
                                 ![r].payload = <<text>>]

\* payload from the document read earlier, token from the payload,
\* updateOne({ email }, { $set: { sessionKey } })
LoginUpdate(r) ==
  /\ reqs[r].pc = "login_update"
  /\ UNCHANGED <<conn, cache, now, ready>>
  /\ LET text == JSONstringify(Payload(reqs[r].user[1]))
         key == sha256(text)
     IN /\ users' = SetSessionKey(users, toLowerCase(reqs[r].email), key)
        /\ reqs' = [Fresh EXCEPT ![r].pc = "login_set",
                                 ![r].sessionKey = key,
                                 ![r].payload = <<text>>]

\* redisClient.set(sessionKey, payload, 90 days), then the response
LoginCacheSet(r) ==
  /\ reqs[r].pc = "login_set"
  /\ UNCHANGED <<conn, users, now, ready>>
  /\ \/ /\ ~ready
        /\ reqs' = [Fresh EXCEPT ![r] = Respond("login", NoKey, 500,
                       "Server error", "", <<>>, NoKey)]
        /\ UNCHANGED cache
     \/ /\ ready
        /\ cache' = CacheSet(cache, reqs[r].sessionKey,
                             reqs[r].payload[1], now)
        /\ reqs' = [Fresh EXCEPT ![r] =
                      LoginOk(reqs[r].user[1], reqs[r].sessionKey)]

(* -------------------- GET /userfromsession/:sessionKey ----------------- *)
\* variant: the phone is left out of the comparison
DataChanged_NoPhone(cachedData, current) ==
  \/ cachedData.name # current.name
  \/ cachedData.email # current.email
  \/ cachedData.resetTokenUsed # current.resetTokenUsed
  \/ cachedData.resetTokenTime # current.resetTokenTime

\* variant: every read counts as a change
DataChanged_Always(cachedData, current) == TRUE

\* the dataChanged expression: strict inequality on five fields
DataChanged(cachedData, current) ==
  \/ cachedData.name # current.name
  \/ cachedData.email # current.email
  \/ cachedData.phone # current.phone
  \/ cachedData.resetTokenUsed # current.resetTokenUsed
  \/ cachedData.resetTokenTime # current.resetTokenTime

\* the cache holds, under the key of a record, another text than the
\* record's projection (observed only: "pre" below)
Drifted(us, c, k) ==
  /\ k \in DOMAIN c
  /\ FirstBySessionKey(us, k) # 0
  /\ c[k].val # JSONstringify(Payload(us[FirstBySessionKey(us, k)]))

\* redisClient.get(sessionKey); "pre" observes the state the call began in
GetCacheGet(r, k) ==
  /\ Free(r)
  /\ UNCHANGED <<conn, users, cache, now, ready>>
  /\ \/ /\ ~ready
        /\ reqs' = [Fresh EXCEPT ![r] = Respond("get", k, 500,
                       "Server error while fetching user.", "", <<>>, NoKey)]
     \/ /\ ready
        /\ reqs' = [Fresh EXCEPT ![r] =
             [Idle EXCEPT !.op = "get", !.sessionKey = k,
                          !.cached = CacheGet(cache, k),
                          !.pre = IF Drifted(users, cache, k) THEN "stale"
                                  ELSE "",
                          !.pc = IF CacheGet(cache, k) = <<>>
                                 THEN "get_unset" ELSE "get_find"]]

\* no cache entry: updateOne({ sessionKey }, $unset), 401 SESSION_EXPIRED
GetUnset(r) ==
  /\ reqs[r].pc = "get_unset"
  /\ UNCHANGED <<conn, cache, now, ready>>
  /\ users' = UnsetSessionKey(users, reqs[r].sessionKey)
  /\ reqs' = [Fresh EXCEPT ![r] = Respond("get", reqs[r].sessionKey, 401,
                 "Session expired - please login again", "SESSION_EXPIRED",
                 <<>>, NoKey)]

\* variant: with no record pointing at the key the cached data is served
GetFind_TrustCache(r) ==
  /\ reqs[r].pc = "get_find"
  /\ UNCHANGED <<conn, users, cache, now, ready>>
  /\ LET i == FirstBySessionKey(users, reqs[r].sessionKey)
         cachedData == JSONparse(reqs[r].cached[1])
     IN IF i # 0 /\ DataChanged(cachedData, Payload(users[i]))
        THEN reqs' = [Fresh EXCEPT ![r].pc = "get_del",
                         ![r].payload = <<JSONstringify(Payload(users[i]))>>]
        ELSE reqs' = [Fresh EXCEPT ![r] = Respond("get", reqs[r].sessionKey,
                        200, "", "", reqs[r].cached, NoKey)]

\* variant: an entry no record points at is deleted on sight
GetFind_Evict(r) ==
  /\ reqs[r].pc = "get_find"
  /\ UNCHANGED <<conn, users, now, ready>>
  /\ LET i == FirstBySessionKey(users, reqs[r].sessionKey)
         cachedData == JSONparse(reqs[r].cached[1])
     IN IF i = 0
        THEN /\ cache' = CacheDel(cache, reqs[r].sessionKey)
             /\ reqs' = [Fresh EXCEPT ![r] = Respond("get",
                            reqs[r].sessionKey, 401, "Invalid session", "",
                            <<>>, NoKey)]
        ELSE IF DataChanged(cachedData, Payload(users[i]))
        THEN /\ reqs' = [Fresh EXCEPT ![r].pc = "get_del",
                         ![r].payload = <<JSONstringify(Payload(users[i]))>>]
             /\ UNCHANGED cache
        ELSE /\ reqs' = [Fresh EXCEPT ![r] = Respond("get",
                            reqs[r].sessionKey, 200, "", "", reqs[r].cached,
                            NoKey)]
             /\ UNCHANGED cache

\* findOne({ sessionKey }), the current payload, the comparison
GetFind(r) ==
  /\ reqs[r].pc = "get_find"
  /\ UNCHANGED <<conn, users, cache, now, ready>>
  /\ LET i == FirstBySessionKey(users, reqs[r].sessionKey)
         cachedData == JSONparse(reqs[r].cached[1])
     IN IF i = 0
        THEN reqs' = [Fresh EXCEPT ![r] = Respond("get", reqs[r].sessionKey,
                        401, "Invalid session", "", <<>>, NoKey)]
        ELSE IF DataChanged(cachedData, Payload(users[i]))
        THEN reqs' = [Fresh EXCEPT ![r].pc = "get_del",
                         ![r].payload = <<JSONstringify(Payload(users[i]))>>]
        ELSE reqs' = [Fresh EXCEPT ![r] = Respond("get", reqs[r].sessionKey,
                        200, "", "", reqs[r].cached, NoKey)]

\* redisClient.del(sessionKey)
GetCacheDel(r) ==
  /\ reqs[r].pc = "get_del"
  /\ UNCHANGED <<conn, users, now, ready>>
  /\ \/ /\ ~ready
        /\ reqs' = [Fresh EXCEPT ![r] = Respond("get", reqs[r].sessionKey,
                       500, "Server error while fetching user.", "", <<>>,
                       NoKey)]
        /\ UNCHANGED cache
     \/ /\ ready
        /\ cache' = CacheDel(cache, reqs[r].sessionKey)
        /\ reqs' = [Fresh EXCEPT ![r].pc = "get_set"]

\* redisClient.set(sessionKey, current payload, 90 days), then the response
GetCacheSet(r) ==
  /\ reqs[r].pc = "get_set"
  /\ UNCHANGED <<conn, users, now, ready>>
  /\ \/ /\ ~ready
        /\ reqs' = [Fresh EXCEPT ![r] = Respond("get", reqs[r].sessionKey,
                       500, "Server error while fetching user.", "", <<>>,
                       NoKey)]
        /\ UNCHANGED cache
     \/ /\ ready
        /\ cache' = CacheSet(cache, reqs[r].sessionKey,
                             reqs[r].payload[1], now)
        /\ reqs' = [Fresh EXCEPT ![r] = Respond("get", reqs[r].sessionKey,
                       200, "", "Redis cache updated", reqs[r].payload,
                       NoKey)]

(* --------------------------- PUT /updateprofile ------------------------ *)
\* findOne({ sessionKey })
UpdFind(r, k, name, phone) ==
  /\ Free(r)
  /\ UNCHANGED <<conn, users, cache, now, ready>>
  /\ IF FirstBySessionKey(users, k) = 0
     THEN reqs' = [Fresh EXCEPT ![r] = Respond("update", k, 404,
                     "Invalid session", "", <<>>, NoKey)]
     ELSE reqs' = [Fresh EXCEPT ![r] =
            [Idle EXCEPT !.op = "update", !.sessionKey = k, !.name = name,
                         !.phone = phone, !.pc = "upd_get"]]

\* redisClient.get(sessionKey)
UpdCacheGet(r) ==
  /\ reqs[r].pc = "upd_get"
  /\ UNCHANGED <<conn, users, cache, now, ready>>
  /\ \/ /\ ~ready
        /\ reqs' = [Fresh EXCEPT ![r] = Respond("update",
                       reqs[r].sessionKey, 500, "Server error", "", <<>>,
                       NoKey)]
     \/ /\ ready
        /\ reqs' = [Fresh EXCEPT ![r].pc =
                      IF CacheGet(cache, reqs[r].sessionKey) = <<>>
                      THEN "upd_unset" ELSE "upd_write"]

\* variant: the requested fields are written before the pointer is cleared
UpdUnset_Apply(r) ==
  /\ reqs[r].pc = "upd_unset"
  /\ UNCHANGED <<conn, cache, now, ready>>
  /\ users' = UnsetSessionKey(SetProfile(users, reqs[r].sessionKey,
                                         reqs[r].name, reqs[r].phone),
                              reqs[r].sessionKey)
  /\ reqs' = [Fresh EXCEPT ![r] = Respond("update", reqs[r].sessionKey, 401,
                 "Session expired - please login again", "", <<>>, NoKey)]

\* no cache entry: updateOne({ sessionKey }, $unset), 401
UpdUnset(r) ==
  /\ reqs[r].pc = "upd_unset"
  /\ UNCHANGED <<conn, cache, now, ready>>
  /\ users' = UnsetSessionKey(users, reqs[r].sessionKey)
  /\ reqs' = [Fresh EXCEPT ![r] = Respond("update", reqs[r].sessionKey, 401,
                 "Session expired - please login again", "", <<>>, NoKey)]

\* updateOne({ sessionKey }, { $set: { name, phone } })
UpdWrite(r) ==
  /\ reqs[r].pc = "upd_write"
  /\ UNCHANGED <<conn, cache, now, ready>>
  /\ users' = SetProfile(users, reqs[r].sessionKey, reqs[r].name,
                         reqs[r].phone)
  /\ reqs' = [Fresh EXCEPT ![r].pc = "upd_refind"]

\* findOne({ sessionKey }) again; reading a field of null throws
UpdRefind(r) ==
  /\ reqs[r].pc = "upd_refind"
  /\ UNCHANGED <<conn, users, cache, now, ready>>
  /\ LET i == FirstBySessionKey(users, reqs[r].sessionKey)
     IN IF i = 0
        THEN reqs' = [Fresh EXCEPT ![r] = Respond("update",
                        reqs[r].sessionKey, 500, "Server error", "", <<>>,
                        NoKey)]
        ELSE reqs' = [Fresh EXCEPT ![r].pc = "upd_set",
                         ![r].payload = <<JSONstringify(Payload(users[i]))>>]

\* redisClient.set(sessionKey, updated payload, 90 days), then the response
UpdCacheSet(r) ==
  /\ reqs[r].pc = "upd_set"
  /\ UNCHANGED <<conn, users, now, ready>>
  /\ \/ /\ ~ready
        /\ reqs' = [Fresh EXCEPT ![r] = Respond("update",
                       reqs[r].sessionKey, 500, "Server error", "", <<>>,
                       NoKey)]
        /\ UNCHANGED cache
     \/ /\ ready
        /\ cache' = CacheSet(cache, reqs[r].sessionKey,
                             reqs[r].payload[1], now)
        /\ reqs' = [Fresh EXCEPT ![r] = Respond("update",
                       reqs[r].sessionKey, 200, "", "", reqs[r].payload,
                       NoKey)]

(* -------------------------- POST /password/change ---------------------- *)
\* the checks of the body, findOne({ userid }) and bcrypt.compare
PwdFind(r, userid, currentPassword, newPassword) ==
  /\ Free(r)
  /\ UNCHANGED <<conn, users, cache, now, ready>>
  /\ LET i == FirstByUserid(users, userid)
     IN IF Missing \in {currentPassword, newPassword}
        THEN reqs' = [Fresh EXCEPT ![r] = Respond("password", NoKey, 400,
                        "Current password and new password are required.",
                        "", <<>>, NoKey)]
        ELSE IF length(newPassword) < 8
        THEN reqs' = [Fresh EXCEPT ![r] = Respond("password", NoKey, 400,
                        "New password must be at least 8 characters long.",
                        "", <<>>, NoKey)]
        ELSE IF userid = Missing
        THEN reqs' = [Fresh EXCEPT ![r] = Respond("password", NoKey, 401,
                        "User ID required. Please login again.", "", <<>>,
                        NoKey)]
        ELSE IF i = 0
        THEN reqs' = [Fresh EXCEPT ![r] = Respond("password", NoKey, 404,
                        "User not found.", "", <<>>, NoKey)]
        ELSE IF ~bcryptCompare(currentPassword, users[i].password)
        THEN reqs' = [Fresh EXCEPT ![r] = Respond("password", NoKey, 400,
                        "Current password is incorrect.", "", <<>>, NoKey)]
        ELSE reqs' = [Fresh EXCEPT ![r] =
               [Idle EXCEPT !.op = "password", !.userid = userid,
                            !.password = newPassword, !.pc = "pwd_write"]]

\* bcrypt.hash, updateOne({ userid }, $set), modifiedCount, the response
PwdWrite(r) ==
  /\ reqs[r].pc = "pwd_write"
  /\ UNCHANGED <<conn, cache, now, ready>>
  /\ users' = SetPassword(users, reqs[r].userid,
                          bcryptHash(reqs[r].password), now)
  /\ IF FirstByUserid(users, reqs[r].userid) = 0
     THEN reqs' = [Fresh EXCEPT ![r] = Respond("password", NoKey, 500,
                     "Failed to update password.", "", <<>>, NoKey)]
     ELSE reqs' = [Fresh EXCEPT ![r] = Respond("password", NoKey, 200,
                     "", "", <<>>, NoKey)]

(* ----------------------- the cache connection -------------------------- *)
\* redisClient.on('error') / on('end'): commands are rejected from now on
RedisDown ==
  /\ ready
  /\ ready' = FALSE
  /\ reqs' = Fresh
  /\ UNCHANGED <<conn, users, cache, now>>

\* redisClient.on('ready')
RedisReady ==
  /\ ~ready
  /\ ready' = TRUE
  /\ reqs' = Fresh
  /\ UNCHANGED <<conn, users, cache, now>>

(* ------------------- connecting and reconnecting ----------------------- *)
\* the client's socket and the callbacks of redisClient.js it triggers;
\* requests are left out here
ConnStep(c) ==
  /\ ~conn.exited
  /\ c.timers <= MaxTimers
  /\ conn' = c
  /\ ready' = (c.sock = "ready")
  /\ UNCHANGED <<users, cache, now, reqs>>

\* a connection attempt succeeds: 'ready' is emitted and a pending
\* redisClient.connect() resolves
SocketConnected ==
  /\ conn.sock = "connecting"
  /\ ConnStep(connectResolved(onReady(
         [conn EXCEPT !.sock = "ready", !.retries = 0])))

\* a connection attempt fails and reconnectStrategy returns a delay: 'error'
\* is emitted and the client waits
SocketRefused(listed) ==
  /\ conn.sock = "connecting"
  /\ reconnectStrategy(conn.retries) # <<>>
  /\ ConnStep(onError([conn EXCEPT !.sock = "backoff",
                                   !.delay = reconnectStrategy(conn.retries)[1],
                                   !.retries = @ + 1], listed))

\* a connection attempt fails and reconnectStrategy returns false: a pending
\* redisClient.connect() rejects. Releases of the client differ in whether
\* the socket is then marked closed and 'error' emitted (closes) or isOpen
\* stays true and nothing is emitted.
SocketGivesUp(listed, closes) ==
  /\ conn.sock = "connecting"
  /\ reconnectStrategy(conn.retries) = <<>>
  /\ IF closes
     THEN ConnStep(connectRejected(onError(
            [conn EXCEPT !.sock = "closed", !.isOpen = FALSE], listed)))
     ELSE ConnStep(connectRejected([conn EXCEPT !.sock = "closed"]))

\* the reconnect delay has passed: the next attempt starts
BackoffElapsed ==
  /\ conn.sock = "backoff"
  /\ ConnStep([conn EXCEPT !.sock = "connecting"])

\* an established connection breaks: 'error' is emitted, the strategy is
\* asked with retries = 0 and the client reconnects on its own
SocketLost(listed) ==
  /\ conn.sock = "ready"
  /\ ConnStep(onError([conn EXCEPT !.sock = "connecting", !.retries = 0,
                                   !.delay = reconnectStrategy(0)[1]],
                      listed))

\* a setTimeout(connectRedis, 5000) fires
TimerFires ==
  /\ conn.timers > 0
  /\ ConnStep(connectRedis([conn EXCEPT !.timers = @ - 1]))

\* SIGINT: an open client is quit ('end' is emitted), the process exits
Sigint ==
  /\ IF conn.isOpen
     THEN ConnStep([onEnd([conn EXCEPT !.sock = "closed", !.isOpen = FALSE])
                      EXCEPT !.exited = TRUE])
     ELSE ConnStep([conn EXCEPT !.exited = TRUE])

(* ------------------------------- time ---------------------------------- *)
\* time passes; the cache drops the keys whose expiry has been reached.
\* The clock is followed from the first registration for one TTL period.
Tick ==
  /\ users # <<>>
  /\ now < EX
  /\ now' = now + Quantum
  /\ cache' = Expire(cache, now')
  /\ reqs' = Fresh
  /\ UNCHANGED <<conn, users, ready>>

(* ------------------------- the specifications -------------------------- *)
\* the requests the session server (app.js) accepts
Start(r) ==
  /\ Slot(r)
  /\ \/ \E n \in Names, e \in Emails \cup {Missing}, p \in RegPhones,
           w \in RegPasswords : Register(r, n, e, p, w)
     \/ \E e \in Emails, w \in Passwords : LoginFind(r, e, w)
     \/ \E k \in Tokens : GetCacheGet(r, k)
     \/ \E k \in Tokens, n \in Names, p \in Phones : UpdFind(r, k, n, p)

Step(r) ==
  \/ LoginCacheGet(r)
  \/ LoginUpdate(r)
  \/ LoginCacheSet(r)
  \/ GetUnset(r)
  \/ GetFind(r)
  \/ GetCacheDel(r)
  \/ GetCacheSet(r)
  \/ UpdCacheGet(r)
  \/ UpdUnset(r)
  \/ UpdWrite(r)
  \/ UpdRefind(r)
  \/ UpdCacheSet(r)

\* requests are served concurrently, interleaved at their awaits, over a
\* cache connection that stays up
Next ==
  \/ \E r \in Reqs : Start(r)
  \/ \E r \in Reqs : Step(r)
  \/ Tick

Spec == Init /\ [][Next]_vars

\* one request at a time, over a cache connection that can drop and come
\* back between any two steps
Quiet == \A r \in Reqs : Free(r)

NextSeq ==
  \/ \E r \in Reqs : Quiet /\ Start(r)
  \/ \E r \in Reqs : Step(r)
  \/ Tick
  \/ RedisDown
  \/ RedisReady

SpecSeq == Init /\ [][NextSeq]_vars

\* both server files registering users into the same collection
NextReg ==
  \/ \E r \in Reqs, n \in Names, e \in Emails \cup {Missing}, p \in RegPhones,
        w \in RegPasswords : Slot(r) /\ Register(r, n, e, p, w)
  \/ \E r \in Reqs, n \in Names, e \in Emails \cup {Missing}, p \in RegPhones,
        w \in RegPasswords : Slot(r) /\ RegisterLegacy(r, n, e, p, w)
  \/ Tick

SpecReg == Init /\ [][NextReg]_vars

\* every operation on accounts and sessions, two accounts, one request at
\* a time, over a cache connection that can drop and come back between any
\* two steps. The clock stands still here: a sessionKey without a cache
\* entry comes from a login whose cache write was rejected.
StartAcct(r) ==
  /\ Slot(r)
  /\ \/ \E n \in Names, e \in AcctEmails, p \in RegPhones,
           w \in RegPasswords : Register(r, n, e, p, w)
     \/ \E e \in AcctEmails, w \in AcctPasswords : LoginFind(r, e, w)
     \/ \E k \in Tokens : GetCacheGet(r, k)
     \/ \E k \in Tokens, n \in Names, p \in Phones : UpdFind(r, k, n, p)
     \/ \E id \in Userids, w \in AcctPasswords,
           v \in NewPasswords \cup {Missing} : PwdFind(r, id, w, v)

NextAcct ==
  \/ \E r \in Reqs : Quiet /\ StartAcct(r)
  \/ \E r \in Reqs : Step(r)
  \/ \E r \in Reqs : PwdWrite(r)
  \/ RedisDown
  \/ RedisReady

SpecAcct == Init /\ [][NextAcct]_vars

\* the cache client from the loading of redisClient.js on
InitConn ==
  /\ users = <<>>
  /\ cache = <<>>
  /\ now = 0
  /\ reqs = [r \in Reqs |-> Idle]
  /\ ready = FALSE
  /\ conn = Loaded

NextConn ==
  \/ SocketConnected
  \/ \E listed \in BOOLEAN : SocketRefused(listed)
  \/ \E listed \in BOOLEAN, closes \in BOOLEAN : SocketGivesUp(listed, closes)
  \/ BackoffElapsed
  \/ \E listed \in BOOLEAN : SocketLost(listed)
  \/ TimerFires
  \/ Sigint

SpecConn == InitConn /\ [][NextConn]_vars

(* ------------------------------ properties ----------------------------- *)
\* request r takes the step
Moves(r) == reqs'[r] # reqs[r]

\* the step sends the response of request r
Responds(r) == reqs'[r].pc = "done" /\ vars' # vars

\* the step is the first one of a request for operation op in slot r
Starts(r, op) ==
  Free(r) /\ reqs'[r].op = op /\ reqs'[r].pc # "idle" /\ vars' # vars

\* the text of the projection of the record that points at key k
Projection(us, k) == JSONstringify(Payload(us[FirstBySessionKey(us, k)]))

\* the five compared fields of a cached text agree with a record
SameFive(text, user) ==
  LET c == JSONparse(text)
      p == Payload(user)
  IN /\ c.name = p.name
     /\ c.email = p.email
     /\ c.phone = p.phone
     /\ c.resetTokenUsed = p.resetTokenUsed
     /\ c.resetTokenTime = p.resetTokenTime

\* C1: served one request at a time, a GET /userfromsession/T that begins
\* with a cache entry under T that differs from the projection of the record
\* pointing at T, and that no cache error cuts short, answers 200 with the
\* projection of the current record and leaves exactly that projection in
\* the cache under T with a fresh 90-day expiry, the pointer still at T.
C1_ReadRepairConverges ==
  [][\A r \in Reqs :
       (/\ reqs[r].op = "get"
        /\ reqs[r].pre = "stale"
        /\ Responds(r)
        /\ reqs'[r].resp.status # 500)
       => LET k == reqs[r].sessionKey
          IN /\ reqs'[r].resp.status = 200
             /\ FirstBySessionKey(users', k) # 0
             /\ reqs'[r].resp.user = <<Projection(users', k)>>
             /\ k \in DOMAIN cache'
             /\ cache'[k] = [val |-> Projection(users', k),
                             exp |-> now' + EX]]_vars

\* a repair has just been answered: the store had run ahead of the cache
C1_Witness ==
  \E r \in Reqs :
    /\ reqs[r].pc = "done"
    /\ reqs[r].op = "get"
    /\ reqs[r].resp.status = 200
    /\ reqs[r].resp.log = "Redis cache updated"
    /\ reqs[r].sessionKey \in DOMAIN cache
    /\ cache[reqs[r].sessionKey].val = Projection(users, reqs[r].sessionKey)
    /\ Projection(users, reqs[r].sessionKey) # reqs[r].sessionKey[2]

\* C2: a GET /userfromsession/T that finds no cache entry under T goes on to
\* answer 401 with code SESSION_EXPIRED; when it answers no record has
\* sessionKey = T, and its steps leave the cache as it is.
C2_ExpiryFinality ==
  [][\A r \in Reqs :
       /\ (Starts(r, "get") /\ ready
             /\ reqs'[r].sessionKey \notin DOMAIN cache)
          => reqs'[r].pc = "get_unset" /\ cache' = cache
       /\ (reqs[r].pc = "get_unset" /\ Moves(r))
          => /\ reqs'[r].pc = "done"
             /\ reqs'[r].resp.status = 401
             /\ reqs'[r].resp.log = "SESSION_EXPIRED"
             /\ \A i \in 1..Len(users') :
                  users'[i].sessionKey # reqs[r].sessionKey
             /\ cache' = cache]_vars

\* SESSION_EXPIRED has just been answered for a token a record pointed at
C2_Witness ==
  \E r \in Reqs :
    /\ reqs[r].pc = "done"
    /\ reqs[r].op = "get"
    /\ reqs[r].resp.log = "SESSION_EXPIRED"
    /\ reqs[r].sessionKey # BogusToken
    /\ reqs[r].sessionKey \notin DOMAIN cache
    /\ \A i \in 1..Len(users) : users[i].sessionKey = NoKey

\* C3: when the text a GET /userfromsession/T read from the cache agrees on
\* name, email, phone, resetTokenUsed and resetTokenTime with the record
\* pointing at T, the call answers 200 with the cached text as it was read,
\* and the step writes neither the cache (content and expiry stay) nor the
\* store.
C3_FastPathNoWrite ==
  [][\A r \in Reqs :
       LET i == FirstBySessionKey(users, reqs[r].sessionKey)
       IN (/\ reqs[r].pc = "get_find"
           /\ Moves(r)
           /\ i # 0
           /\ SameFive(reqs[r].cached[1], users[i]))
          => /\ reqs'[r].pc = "done"
             /\ reqs'[r].resp.status = 200
             /\ reqs'[r].resp.user = reqs[r].cached
             /\ cache' = cache
             /\ users' = users]_vars

\* a cache hit has just been answered and the entry's expiry is the old one
C3_Witness ==
  \E r \in Reqs :
    /\ reqs[r].pc = "done"
    /\ reqs[r].op = "get"
    /\ reqs[r].resp.status = 200
    /\ reqs[r].resp.log = ""
    /\ reqs[r].sessionKey \in DOMAIN cache
    /\ cache[reqs[r].sessionKey].val = reqs[r].resp.user[1]
    /\ cache[reqs[r].sessionKey].exp < now + EX

\* C4: when POST /login answers 200 with token T, a record has
\* sessionKey = T and the cache holds an entry under T, whatever other
\* requests ran between the steps of the login.
C4_LoginPostcondition ==
  [][\A r \in Reqs :
       (/\ Responds(r)
        /\ reqs'[r].op = "login"
        /\ reqs'[r].resp.status = 200)
       => /\ FirstBySessionKey(users', reqs'[r].resp.sessionKey) # 0
          /\ reqs'[r].resp.sessionKey \in DOMAIN cache']_vars

\* C5: when PUT /updateprofile answers 200 for token T, a record has
\* sessionKey = T, the cache entry under T is that record's projection with
\* a fresh 90-day expiry, and the response carries the same projection,
\* whatever other requests ran between the steps of the update.
C5_UpdateKeepsCacheInStep ==
  [][\A r \in Reqs :
       (/\ Responds(r)
        /\ reqs'[r].op = "update"
        /\ reqs'[r].resp.status = 200)
       => LET k == reqs'[r].sessionKey
          IN /\ FirstBySessionKey(users', k) # 0
             /\ k \in DOMAIN cache'
             /\ cache'[k] = [val |-> Projection(users', k),
                             exp |-> now' + EX]
             /\ reqs'[r].resp.user = <<Projection(users', k)>>]_vars

\* C6: while a GET /userfromsession/T that began on a stale but live token
\* is in flight and no expiry can have lapsed, no other GET on T finds the
\* key absent or answers 401, and a record keeps sessionKey = T.
C6_ConcurrentRepairSafe ==
  \A r \in Reqs :
    (/\ now < EX
     /\ reqs[r].pc \in {"get_find", "get_del", "get_set"}
     /\ reqs[r].pre = "stale")
    => /\ FirstBySessionKey(users, reqs[r].sessionKey) # 0
       /\ \A q \in Reqs \ {r} :
            (reqs[q].op = "get" /\ reqs[q].sessionKey = reqs[r].sessionKey)
            => /\ reqs[q].pc # "get_unset"
               /\ reqs[q].resp.status # 401

\* C7: no two records have emails that are equal when case is ignored, and
\* every stored email is lowercase.
C7_EmailUnique ==
  /\ \A i, j \in 1..Len(users) :
       i # j => toLowerCase(users[i].email) # toLowerCase(users[j].email)
  /\ \A i \in 1..Len(users) : users[i].email = toLowerCase(users[i].email)

\* C8 as stated: a rejected cache get is taken for a miss (login goes on to
\* derive a token, the session read and the profile update go on to clear
\* the pointer), and a rejected cache set or del is answered with an error.
C8_ReadFailOpenWriteFail ==
  [][\A r \in Reqs :
       /\ (reqs[r].pc = "login_get" /\ Moves(r) /\ ~ready)
          => reqs'[r].pc = "login_update"
       /\ (reqs[r].pc = "upd_get" /\ Moves(r) /\ ~ready)
          => reqs'[r].pc = "upd_unset"
       /\ (Starts(r, "get") /\ ~ready) => reqs'[r].pc = "get_unset"
       /\ (/\ reqs[r].pc \in {"login_set", "get_del", "get_set", "upd_set"}
           /\ Moves(r) /\ ~ready)
          => reqs'[r].pc = "done" /\ reqs'[r].resp.status = 500]_vars

\* C9: PUT /updateprofile for a token no record points at answers 404 and
\* writes nothing; for a token a record points at but the cache does not
\* hold it goes on to answer 401, and when it answers no record has
\* sessionKey = T while every name and phone and the cache are as before.
C9_UpdateErrorOutcomes ==
  [][\A r \in Reqs :
       /\ (/\ Starts(r, "update")
           /\ FirstBySessionKey(users, reqs'[r].sessionKey) = 0)
          => /\ reqs'[r].pc = "done"
             /\ reqs'[r].resp.status = 404
             /\ users' = users
             /\ cache' = cache
       /\ (/\ reqs[r].pc = "upd_get" /\ Moves(r) /\ ready
           /\ reqs[r].sessionKey \notin DOMAIN cache)
          => reqs'[r].pc = "upd_unset" /\ users' = users /\ cache' = cache
       /\ (reqs[r].pc = "upd_unset" /\ Moves(r))
          => /\ reqs'[r].pc = "done"
             /\ reqs'[r].resp.status = 401
             /\ Len(users') = Len(users)
             /\ \A i \in 1..Len(users) :
                  /\ users'[i].sessionKey # reqs[r].sessionKey
                  /\ users'[i].name = users[i].name
                  /\ users'[i].phone = users[i].phone
             /\ cache' = cache]_vars

\* an update that asked for another phone has just been answered 401: the
\* pointer is cleared and the phone is the old one
C9_Witness ==
  \E r \in Reqs :
    /\ reqs[r].pc = "done"
    /\ reqs[r].op = "update"
    /\ reqs[r].resp.status = 401
    /\ \A i \in 1..Len(users) :
         users[i].sessionKey = NoKey /\ users[i].phone \in RegPhones

\* the record the cached text under k was taken from points at another key
Superseded(us, text, k) ==
  \E i \in 1..Len(us) :
    /\ us[i].email = JSONparse(text).email
    /\ us[i].sessionKey # NoKey
    /\ us[i].sessionKey # k

\* C10 as stated: a GET /userfromsession/T that read a cache entry under T
\* after a newer login moved the user's pointer to another token answers
\* 200 with the user's projection.
C10_SupersededResolvable ==
  [][\A r \in Reqs :
       (/\ reqs[r].pc = "get_find"
        /\ Moves(r)
        /\ FirstBySessionKey(users, reqs[r].sessionKey) = 0
        /\ Superseded(users, reqs[r].cached[1], reqs[r].sessionKey))
       => /\ reqs'[r].resp.status = 200
          /\ reqs'[r].resp.user # <<>>]_vars

\* C10 amended: a token that no record points at any more is not resolvable
\* even while its cache entry exists: the GET answers 401 "Invalid session"
\* and returns no user data.
C10_SupersededRejected ==
  [][\A r \in Reqs :
       (/\ reqs[r].pc = "get_find"
        /\ Moves(r)
        /\ FirstBySessionKey(users, reqs[r].sessionKey) = 0)
       => /\ reqs'[r].pc = "done"
          /\ reqs'[r].resp.status = 401
          /\ reqs'[r].resp.error = "Invalid session"
          /\ reqs'[r].resp.user = <<>>]_vars

\* a newer login has moved the pointer to another token, the entry under
\* the old token is still cached, and a GET on the old token was refused
C10_Witness ==
  \E r \in Reqs :
    /\ reqs[r].pc = "done"
    /\ reqs[r].op = "get"
    /\ reqs[r].resp.status = 401
    /\ reqs[r].resp.error = "Invalid session"
    /\ reqs[r].sessionKey \in DOMAIN cache
    /\ Superseded(users, cache[reqs[r].sessionKey].val, reqs[r].sessionKey)

\* C11: a POST /login for an email whose lowercase form no record has, or
\* with a password that does not verify against the record's verifier, is
\* answered 400 at once with no token and no user, and the step leaves every
\* record and every cache entry (content and expiry) as they were.
C11_LoginFailureNoEffect ==
  [][\A r \in Reqs, e \in Emails, w \in Passwords :
       LET i == FirstByEmail(users, toLowerCase(e))
       IN (/\ LoginFind(r, e, w)
           /\ vars' # vars
           /\ (i = 0 \/ ~bcryptCompare(w, users[i].password)))
          => /\ reqs'[r].pc = "done"
             /\ reqs'[r].resp.status = 400
             /\ reqs'[r].resp.sessionKey = NoKey
             /\ reqs'[r].resp.user = <<>>
             /\ users' = users
             /\ cache' = cache]_vars

\* a wrong password has just been refused for a user with a live session
C11_Witness ==
  \E r \in Reqs :
    /\ reqs[r].pc = "done"
    /\ reqs[r].op = "login"
    /\ reqs[r].resp.status = 400
    /\ reqs[r].resp.error = "Invalid credentials"
    /\ \E i \in 1..Len(users) :
         users[i].sessionKey # NoKey /\ users[i].sessionKey \in DOMAIN cache

\* the keys of a JSON text
KeysOf(text) == {text[i][1] : i \in 1..Len(text)}

\* a JSON text with none but the seven public keys
OnlyPublic(text) ==
  /\ KeysOf(text) \subseteq {Fields[i] : i \in 1..Len(Fields)}
  /\ "password" \notin KeysOf(text)
  /\ "sessionKey" \notin KeysOf(text)

\* C12: every cache entry and every user object in a response to
\* /userfromsession or /updateprofile has none but the seven public keys
\* (so neither the password verifier nor the session token), and the user
\* object of a login response is the userid and the name, two strings.
C12_NoSecretInProjections ==
  /\ \A k \in DOMAIN cache : OnlyPublic(cache[k].val)
  /\ \A r \in Reqs :
       /\ (reqs[r].op \in {"get", "update"} /\ reqs[r].resp.user # <<>>)
          => OnlyPublic(reqs[r].resp.user[1])
       /\ (reqs[r].op = "login" /\ reqs[r].resp.status = 200)
          => /\ Len(reqs[r].resp.user) = 2
             /\ \A j \in 1..2 : reqs[r].resp.user[j] \in STRING

\* a login has just been answered for a record that holds a verifier and a
\* token, and the entry written under that token is in the cache
C12_Witness ==
  \E r \in Reqs :
    /\ reqs[r].pc = "done"
    /\ reqs[r].op = "login"
    /\ reqs[r].resp.status = 200
    /\ reqs[r].resp.sessionKey \in DOMAIN cache
    /\ \E i \in 1..Len(users) :
         /\ users[i].sessionKey = reqs[r].resp.sessionKey
         /\ users[i].password = bcryptHash("pw1")

\* C14: a POST /login that read a record with a sessionKey and finds a cache
\* entry under that sessionKey answers 200 with exactly that key; the step
\* writes no record and leaves the cache, content and expiry, as it was,
\* whether or not the cached text still matches the record.
C14_LoginFastPath ==
  [][\A r \in Reqs :
       (/\ reqs[r].pc = "login_get"
        /\ Moves(r)
        /\ ready
        /\ reqs[r].sessionKey \in DOMAIN cache)
       => /\ reqs'[r].pc = "done"
          /\ reqs'[r].resp.status = 200
          /\ reqs'[r].resp.sessionKey = reqs[r].user[1].sessionKey
          /\ users' = users
          /\ cache' = cache]_vars

\* a login has just been answered from a cache entry that is stale and
\* whose expiry is older than a write at this time would have left
C14_Witness ==
  \E r \in Reqs :
    /\ reqs[r].pc = "done"
    /\ reqs[r].op = "login"
    /\ reqs[r].resp.status = 200
    /\ Drifted(users, cache, reqs[r].resp.sessionKey)
    /\ cache[reqs[r].resp.sessionKey].exp < now + EX

\* C15: a GET /userfromsession/T that read a cache entry under T and finds
\* no record with sessionKey = T answers 401 without user data, and the step
\* changes neither the cache (the entry under T stays, with its expiry) nor
\* any record.
C15_OrphanRejected ==
  [][\A r \in Reqs :
       (/\ reqs[r].pc = "get_find"
        /\ Moves(r)
        /\ FirstBySessionKey(users, reqs[r].sessionKey) = 0)
       => /\ reqs'[r].resp.status = 401
          /\ reqs'[r].resp.user = <<>>
          /\ cache' = cache
          /\ users' = users]_vars

\* a GET has just been refused for a key that is cached while no record
\* holds any sessionKey
C15_Witness ==
  \E r \in Reqs :
    /\ reqs[r].pc = "done"
    /\ reqs[r].op = "get"
    /\ reqs[r].resp.status = 401
    /\ reqs[r].resp.error = "Invalid session"
    /\ reqs[r].sessionKey \in DOMAIN cache
    /\ \A i \in 1..Len(users) : users[i].sessionKey = NoKey

\* the seven fields of a JSON text are those of the projection of a record
SameSeven(text, user) ==
  LET c == JSONparse(text)
      p == Payload(user)
  IN /\ c.name = p.name
     /\ c.email = p.email
     /\ c.phone = p.phone
     /\ c.userid = p.userid
     /\ c.createdAt = toISOString(p.createdAt)
     /\ c.resetTokenUsed = p.resetTokenUsed
     /\ c.resetTokenTime = p.resetTokenTime

\* C17: the token a login derives is the digest of the projection of the
\* record it read and of nothing else, and it is written to that record;
\* when the record carried an earlier token, the new token is the same
\* string if the seven projection fields are those the earlier token was
\* derived from, and another string if any of them differs.
C17_TokenDeterminism ==
  [][\A r \in Reqs :
       (reqs[r].pc = "login_update" /\ Moves(r))
       => LET u == reqs[r].user[1]
              old == u.sessionKey
              new == reqs'[r].sessionKey
          IN /\ new = sha256(JSONstringify(Payload(u)))
             /\ users'[FirstByEmail(users, u.email)].sessionKey = new
             /\ old # NoKey => (new = old <=> SameSeven(old[2], u))]_vars

\* a login is re-deriving, from unchanged fields, the token of an entry
\* that has expired: the record gets the same string again
C17_Witness ==
  \E r \in Reqs :
    /\ reqs[r].pc = "login_set"
    /\ reqs[r].user[1].sessionKey = reqs[r].sessionKey
    /\ reqs[r].sessionKey \notin DOMAIN cache
    /\ now = EX
    /\ \E i \in 1..Len(users) : users[i].sessionKey = reqs[r].sessionKey

\* C13: the reconnect delay never exceeds 5 seconds, and once the strategy
\* has given up (the socket is closed) no connection attempt is started
\* again, by the strategy, by an event handler or by a connectRedis timer.
C13_ReconnectStopsForGood ==
  [][/\ conn'.delay <= 5000
     /\ conn.sock = "closed" => conn'.sock = "closed"]_vars

\* C20: at most one redisClient.connect() started by connectRedis is
\* pending, isConnecting is true exactly while one is, and connectRedis
\* starts none while isConnected is true.
C20_SingleInFlightConnect ==
  /\ [](conn.pending <= 1 /\ (conn.isConnecting <=> conn.pending = 1))
  /\ [][conn'.pending > conn.pending => ~conn.isConnected]_vars

\* a redisClient.connect() that a timer started is on its last attempt
\* while another timer is still to fire
C20_Witness ==
  /\ conn.pending = 1
  /\ conn.isConnecting
  /\ conn.timers > 0
  /\ conn.sock = "connecting"
  /\ conn.retries > MaxRetries

\* request r takes the step that clears the pointer after finding no cache
\* entry under key k, in the operation op
ClearsOnMiss(r, op, k) ==
  /\ Moves(r)
  /\ reqs[r].op = op
  /\ reqs[r].pc \in {"get_unset", "upd_unset"}
  /\ reqs[r].sessionKey = k

\* C16 as stated: a record's sessionKey is cleared or replaced only by a
\* GET /userfromsession that found no cache entry under it, or replaced by
\* a login while no cache entry exists under the old key.
C16_OnlyResolveInvalidates ==
  [][\A i \in 1..Len(users) :
       LET k == users[i].sessionKey
       IN (k # NoKey /\ users'[i].sessionKey # k)
          => \/ /\ users'[i].sessionKey = NoKey
                /\ \E r \in Reqs : ClearsOnMiss(r, "get", k)
             \/ /\ users'[i].sessionKey # NoKey
                /\ k \notin DOMAIN cache
                /\ \E r \in Reqs : reqs[r].op = "login" /\ Moves(r)]_vars

\* C16 amended: a record's sessionKey is cleared only by a GET
\* /userfromsession or a PUT /updateprofile that found no cache entry under
\* it, and replaced only by the write of a login's slow path, which a login
\* enters when the record it read has no sessionKey or its cache read
\* under that sessionKey finds no entry; registration and password change
\* leave every sessionKey alone.
C16_OnlyMissInvalidates ==
  [][/\ \A i \in 1..Len(users) :
          LET k == users[i].sessionKey
          IN (k # NoKey /\ users'[i].sessionKey # k)
             => \/ /\ users'[i].sessionKey = NoKey
                   /\ \E r \in Reqs : \/ ClearsOnMiss(r, "get", k)
                                       \/ ClearsOnMiss(r, "update", k)
                \/ /\ users'[i].sessionKey # NoKey
                   /\ \E r \in Reqs :
                        /\ Moves(r)
                        /\ reqs[r].pc = "login_update"
                        /\ toLowerCase(reqs[r].email) = users[i].email
     /\ \A r \in Reqs :
          /\ (Starts(r, "login") /\ reqs'[r].pc = "login_update")
             => reqs'[r].user[1].sessionKey = NoKey
          /\ (reqs[r].pc = "login_get" /\ Moves(r)
                /\ reqs'[r].pc = "login_update")
             => reqs[r].sessionKey \notin DOMAIN cache
          /\ ((Starts(r, "get") /\ reqs'[r].pc = "get_unset")
                \/ (reqs[r].pc = "upd_get" /\ Moves(r)
                      /\ reqs'[r].pc = "upd_unset"))
             => reqs'[r].sessionKey \notin DOMAIN cache
          /\ (Moves(r) /\ reqs'[r].op \in {"register", "password"})
             => /\ Len(users') >= Len(users)
                /\ \A i \in 1..Len(users) :
                     users'[i].sessionKey = users[i].sessionKey]_vars

\* an update has just answered 401 after clearing the pointer of a record
\* whose password had been changed earlier without touching the session
C16_Witness ==
  \E r \in Reqs :
    /\ reqs[r].pc = "done"
    /\ reqs[r].op = "update"
    /\ reqs[r].resp.status = 401
    /\ \E i \in 1..Len(users) :
         /\ users[i].sessionKey = NoKey
         /\ users[i].passwordChangedAt # <<>>
         /\ sha256(JSONstringify(Payload(users[i]))) = reqs[r].sessionKey

\* C18: the steps of a PUT /updateprofile(T, name, phone) that goes past its
\* checks change, in the store, only the name and phone of the first record
\* with sessionKey = T (every other field of it and every other record stay)
\* and, in the cache, only the entry under T; and no step of any operation
\* removes a record or changes a record's userid or createdAt.
C18_UpdateFrame ==
  [][/\ \A r \in Reqs :
          (/\ Moves(r)
           /\ reqs[r].pc \in {"upd_get", "upd_write", "upd_refind", "upd_set"}
           /\ reqs'[r].pc # "upd_unset")
          => LET k == reqs[r].sessionKey
                 i == FirstBySessionKey(users, k)
             IN /\ Len(users') = Len(users)
                /\ \A j \in 1..Len(users) :
                     users'[j] = IF j = i
                                 THEN [users[j] EXCEPT
                                         !.name = users'[j].name,
                                         !.phone = users'[j].phone]
                                 ELSE users[j]
                /\ DOMAIN cache' \ {k} = DOMAIN cache \ {k}
                /\ \A x \in DOMAIN cache \ {k} : cache'[x] = cache[x]
     /\ Len(users') >= Len(users)
     /\ \A i \in 1..Len(users) :
          /\ users'[i].userid = users[i].userid
          /\ users'[i].createdAt = users[i].createdAt]_vars

\* an update has just answered 200 having changed the phone the token was
\* derived from, while a second record with another phone has a session of
\* its own in the cache
C18_Witness ==
  \E r \in Reqs :
    /\ reqs[r].pc = "done"
    /\ reqs[r].op = "update"
    /\ reqs[r].resp.status = 200
    /\ \E i, j \in 1..Len(users) :
         /\ i # j
         /\ users[i].sessionKey = reqs[r].sessionKey
         /\ users[i].phone # JSONparse(users[i].sessionKey[2]).phone
         /\ users[j].sessionKey \in DOMAIN cache
         /\ users[j].phone # users[i].phone

\* C19: no two records hold the same non-null sessionKey, and a cache entry
\* under the sessionKey of a record carries that record's email and userid.
C19_PointersExclusive ==
  /\ \A i, j \in 1..Len(users) :
       (i # j /\ users[i].sessionKey # NoKey)
       => users[i].sessionKey # users[j].sessionKey
  /\ \A i \in 1..Len(users) :
       users[i].sessionKey \in DOMAIN cache
       => /\ JSONparse(cache[users[i].sessionKey].val).email = users[i].email
          /\ JSONparse(cache[users[i].sessionKey].val).userid
               = users[i].userid

\* two records hold a sessionKey each, both with a cache entry, and their
\* names, phones and creation times are the same
C19_Witness ==
  \E i, j \in 1..Len(users) :
    /\ i # j
    /\ users[i].sessionKey \in DOMAIN cache
    /\ users[j].sessionKey \in DOMAIN cache
    /\ users[i].name = users[j].name
    /\ users[i].phone = users[j].phone
    /\ users[i].createdAt = users[j].createdAt

====
